---- MODULE Spec2Model ----
(***************************************************************************)
(* Model of "Activision Programming Test.cpp": a combination lock of       *)
(* letter wheels (ReadWheelFile), a dictionary scan (ProcessDictionary),   *)
(* the sliding matcher (TestWord) and main's try/catch around them.        *)
(*                                                                         *)
(* Characters are ASCII codes.  C strings are TLA+ sequences (word[j] of   *)
(* the code is word[j+1] here); heap arrays are functions over 0..n-1.     *)
(* Files are read lazily: every getline draws the next piece of the file   *)
(* from the environment, which is equivalent to fixing the file up front   *)
(* because the program never looks ahead.  Files are text files: they hold *)
(* no NUL character.                                                       *)
(***************************************************************************)
EXTENDS Integers, Sequences, FiniteSets, TLC

\* ------------------------------------------------------------------ bounds
\* Largest wheel count the environment supplies.
MaxWheels == 2
\* Largest letters-per-wheel the environment supplies: when the lock alone is
\* built (SpecLock), and when the whole program runs (Spec).
MaxLetters == 2
MaxScanLetters == 1
\* Longest dictionary line written out character by character; longer lines
\* are drawn from LongLines below.
MaxLineLen == 1
\* Most lines a dictionary holds.
MaxDictLines == 2

\* ------------------------------------------------------- program constants
ALPHABETLENGTH == 26
MAXWORDLENGTH == 255
\* unsigned int is 32 bits wide; its largest value 2^32 - 1 is beyond the
\* integers of the model checker, whose largest is 2^31 - 1.
IntMax == 2147483647
\* The terminating character '\0'.
NUL == 0

\* Characters the environment puts in files: 'a', 'B' and '1'.
FileChars == {97, 66, 49}

\* ------------------------------------------------------------ <cctype>
isupper(c) == c \in 65..90
islower(c) == c \in 97..122
isalpha(c) == isupper(c) \/ islower(c)
tolower(c) == IF isupper(c) THEN c + 32 ELSE c

\* constexpr int alphabetindex(char letter) { return letter - 'a'; }
alphabetindex(letter) == letter - 97

\* word[i] = tolower(word[i]) for every i < length.
LowerCase(s) == [k \in 1..Len(s) |-> tolower(s[k])]
\* validWord after the loop: the conjunction of isalpha(word[i]).
AllAlpha(s) == \A k \in 1..Len(s) : isalpha(s[k])

\* ------------------------------------------------------------ <istream>
\* The state bits of a stream that matter here.
GoodStream == [eof |-> FALSE, fail |-> FALSE]
good(stream) == ~stream.eof /\ ~stream.fail

\* What is left of the file at the read position, as far as one getline can
\* see: the characters up to the next newline, and whether that newline is
\* there (nl) or the file ends instead.
Piece(chars, nl) == [chars |-> chars, nl |-> nl]
EndOfFile == Piece(<<>>, FALSE)

\* istream::getline(s, n) on a stream in state `stream` with `in` ahead.
\* Characters are extracted until, tested in this order, end of file
\* (eofbit), the delimiter (extracted, not stored), or n - 1 characters are
\* stored (failbit).  Extracting nothing at all sets failbit; a stream that
\* is not good extracts nothing.  Returns the characters stored (a NUL is
\* stored after them) and the new stream state.
getline(stream, in, n) ==
  IF ~good(stream)
    THEN [stored |-> <<>>, stream |-> [eof |-> stream.eof, fail |-> TRUE]]
  ELSE IF Len(in.chars) <= n - 1
    THEN IF in.nl
           THEN [stored |-> in.chars, stream |-> GoodStream]
           ELSE [stored |-> in.chars,
                 stream |-> [eof |-> TRUE, fail |-> Len(in.chars) = 0]]
    ELSE [stored |-> SubSeq(in.chars, 1, n - 1),
          stream |-> [eof |-> FALSE, fail |-> TRUE]]

\* The array `buf` after getline stored `stored` and the NUL after it; the
\* rest of the array keeps what it held.
StoreLine(buf, stored) ==
  [k \in DOMAIN buf |->
     IF k < Len(stored) THEN stored[k + 1]
     ELSE IF k = Len(stored) THEN NUL
     ELSE buf[k]]

\* ------------------------------------------------------------- TestWord
\* The inner loop (lines 48-55) at offset i from position j on.  `reads`
\* collects every <<wheel index, letter index>> the loop reads.  A read
\* outside the wheels array is undefined behaviour: the loop stops there
\* with oob set and the caller decides what follows.
RECURSIVE CharLoop(_, _, _, _, _, _, _)
CharLoop(wheels, word, wordLength, wheelCount, i, j, reads) ==
  IF j >= wordLength
    THEN [match |-> TRUE, oob |-> FALSE, reads |-> reads]
  ELSE LET w == i + j
           a == alphabetindex(word[j + 1])
           r == reads \cup {<<w, a>>}
       IN IF ~(w \in 0..(wheelCount - 1) /\ a \in 0..(ALPHABETLENGTH - 1))
            THEN [match |-> FALSE, oob |-> TRUE, reads |-> r]
          ELSE IF ~wheels[w][a]
            THEN [match |-> FALSE, oob |-> FALSE, reads |-> r]
          ELSE CharLoop(wheels, word, wordLength, wheelCount, i, j + 1, r)

\* The outer loop (lines 44-59) from offset i on.
RECURSIVE OffsetLoop(_, _, _, _, _, _, _, _)
OffsetLoop(wheels, word, wordLength, wheelCount, space, i, count, reads) ==
  IF i > space
    THEN [count |-> count, oob |-> FALSE, reads |-> reads]
  ELSE LET c == CharLoop(wheels, word, wordLength, wheelCount, i, 0, reads)
       IN IF c.oob
            THEN [count |-> count, oob |-> TRUE, reads |-> c.reads]
          ELSE OffsetLoop(wheels, word, wordLength, wheelCount, space, i + 1,
                          IF c.match THEN count + 1 ELSE count, c.reads)

\* uint space{ wheelCount - wordLength }: the difference modulo 2^32.  When
\* the subtraction underflows the result is 2^32 - (wordLength - wheelCount),
\* at least 2^32 - 256 as wordLength <= 255; IntMax stands for it.  Any
\* value above wheelCount has the same effect: the outer loop reaches offset
\* wheelCount at the latest, and reads outside the array there.
Underflows(wordLength, wheelCount) == wheelCount - wordLength < 0
Space(wordLength, wheelCount) ==
  IF Underflows(wordLength, wheelCount) THEN IntMax ELSE wheelCount - wordLength

\* The loop bound of the outer loop: i <= space.  (Mutant: one offset more.)
LastOffsetPlusOne(space) == space + 1
LastOffset(space) == space

\* A mutant of TestWordRun: return at the first matching offset.
FirstMatchOnly(wheels, word, wordLength, wheelCount) ==
  LET r == OffsetLoop(wheels, word, wordLength, wheelCount,
                      LastOffset(Space(wordLength, wheelCount)), 0, 0, {})
  IN [count |-> IF r.count > 0 THEN 1 ELSE 0, oob |-> r.oob, reads |-> r.reads]

\* One run of TestWord: its result, and what it read.
TestWordRun(wheels, word, wordLength, wheelCount) ==
  OffsetLoop(wheels, word, wordLength, wheelCount,
             LastOffset(Space(wordLength, wheelCount)), 0, 0, {})

\* int TestWord(bool** wheels, const char* word, uint wordLength, uint wheelCount)
TestWord(wheels, word, wordLength, wheelCount) ==
  TestWordRun(wheels, word, wordLength, wheelCount).count

\* --------------------------------------------------------- what is thrown
ERR_OPEN_WHEELS == "ERROR: Unable to open wheel file."
ERR_WHEEL_COUNT == "ERROR: Invalid value for wheel count in wheels.txt."
ERR_LETTER_COUNT == "ERROR: Invalid value for letters per wheel in wheels.txt."
ERR_TOO_MANY == "ERROR: Wheel contained too many letters."
ERR_INSUFFICIENT == "ERROR: Wheel contained insufficient letters."
ERR_NON_ALPHA == "ERROR: Non-alphabetical character found in combination."
ERR_OPEN_DICTIONARY == "ERROR: Unable to open dictionary file."
ERR_WORD_LENGTH == "ERROR: Word in dictionary exceeded maximum length!"
NoException == "none"

\* ------------------------------------------------------------ std::cout
WordLine(w) == [kind |-> "word", text |-> w, num |-> 0, msg |-> ""]
TotalLine(n) == [kind |-> "total", text |-> <<>>, num |-> n, msg |-> ""]
ErrorLine(m) == [kind |-> "error", text |-> <<>>, num |-> 0, msg |-> m]
PromptLine == [kind |-> "prompt", text |-> <<>>, num |-> 0, msg |-> ""]

\* --------------------------------------------------------- the environment
\* All strings over FileChars of length at most n.
Strings(n) == UNION {[1..k -> FileChars] : k \in 0..n}
\* A line of n copies of c.
Fill(c, n) == [k \in 1..n |-> c]
\* Lines around the maximum word length: 255 letters, 255 digits, 256 letters.
LongLines ==
  {Fill(97, MAXWORDLENGTH), Fill(49, MAXWORDLENGTH), Fill(97, MAXWORDLENGTH + 1)}
\* What may follow the two numbers on the header line of wheels.txt: the
\* newline, a space and the newline, or the end of the file.
HeaderRests == {Piece(<<>>, TRUE), Piece(<<32>>, TRUE), EndOfFile}
\* What a getline of wheels.txt may find: a line of up to one letter more
\* than declared, followed by a newline or by the end of the file.
WheelPieces(lettersPerWheel) ==
  {Piece(c, nl) : c \in Strings(lettersPerWheel + 1), nl \in BOOLEAN}
\* What a getline of dictionary.txt may find.
DictPieces ==
  {Piece(c, nl) : c \in Strings(MaxLineLen) \cup LongLines, nl \in BOOLEAN}
\* A piece holds a line unless it is the bare end of the file.
IsLine(in) == in.nl \/ Len(in.chars) > 0

\* ------------------------------------------------------------------ state
VARIABLES
  pc,              \* where main is
  wheels,          \* bool** wheels: wheel index -> letter index -> flag
  letters,         \* char* letters: the wheel line buffer, lettersPerWheel + 1 long
  wheelCount,      \* uint wheelCount
  lettersPerWheel, \* uint lettersPerWheel
  wheelFile,       \* state bits of ReadWheelFile's ifstream
  wheelIndex,      \* i of ReadWheelFile's loop
  dictionaryFile,  \* state bits of ProcessDictionary's ifstream
  word,            \* char word[256], as a C string
  count,           \* uint count
  matches,         \* uint matches
  exception,       \* the std::exception in flight or caught
  out,             \* what std::cout has received, line by line
  freed,           \* main has deleted letters and wheels
  wheelLines,      \* history: the letter line found for each wheel so far
  noWheelLine,     \* history: the latest wheel getline had no line to read
  line,            \* history: what the latest dictionary getline found
  linesRead,       \* history: how many dictionary lines were found
  call,            \* history: the TestWord call of the latest iteration, if any
  calls,           \* history: how many times TestWord was called
  expected,        \* history: sum of the match counts of the entries scanned
  skippedNonAlpha, \* history: a non-alphabetic line was skipped
  sawLongLine      \* history: a line longer than MAXWORDLENGTH was found

lockVars == <<wheels, letters, wheelCount, lettersPerWheel, wheelFile, wheelIndex,
              wheelLines, noWheelLine>>
dictVars == <<dictionaryFile, word, count, matches, line, linesRead, call, calls,
              expected, skippedNonAlpha, sawLongLine>>
vars == <<pc, lockVars, dictVars, exception, out, freed>>

NoCall == [made |-> FALSE, word |-> <<>>, wordLength |-> 0, wheelCount |-> 0,
           space |-> 0, reads |-> {}, result |-> 0]

\* main's locals at line 172-175, before ReadWheelFile runs.
Init ==
  /\ pc = "ReadWheelFile"
  /\ wheels = [i \in {} |-> FALSE]
  /\ letters = [k \in {} |-> NUL]
  /\ wheelCount = 0
  /\ lettersPerWheel = 0
  /\ wheelFile = GoodStream
  /\ wheelIndex = 0
  /\ dictionaryFile = GoodStream
  /\ word = <<>>
  /\ count = 0
  /\ matches = 0
  /\ exception = NoException
  /\ out = <<>>
  /\ freed = FALSE
  /\ wheelLines = <<>>
  /\ noWheelLine = FALSE
  /\ line = EndOfFile
  /\ linesRead = 0
  /\ call = NoCall
  /\ calls = 0
  /\ expected = 0
  /\ skippedNonAlpha = FALSE
  /\ sawLongLine = FALSE

\* throw std::exception(msg): control goes to main's catch.
Throw(msg) == pc' = "catch" /\ exception' = msg

\* ---------------------------------------------------------- ReadWheelFile
\* Lines 68-93: open wheels.txt, read the two counts, allocate, and move
\* past the header line.
ReadWheelHeader(maxLetters) ==
  /\ pc = "ReadWheelFile"
  /\ \E opened \in BOOLEAN, wc \in 0..MaxWheels, lpw \in 0..maxLetters,
        rest \in HeaderRests :
       IF ~opened THEN
         /\ Throw(ERR_OPEN_WHEELS)
         /\ UNCHANGED lockVars
       ELSE IF wc = 0 THEN
         /\ Throw(ERR_WHEEL_COUNT)
         /\ UNCHANGED lockVars
       ELSE IF lpw = 0 THEN
         /\ wheelCount' = wc
         /\ wheels' = [i \in 0..(wc - 1) |-> [a \in 0..(ALPHABETLENGTH - 1) |-> FALSE]]
         /\ Throw(ERR_LETTER_COUNT)
         /\ UNCHANGED <<letters, lettersPerWheel, wheelFile, wheelIndex, wheelLines,
                        noWheelLine>>
       ELSE
         LET r == getline(wheelFile, rest, 1) IN
         /\ wheelCount' = wc
         /\ wheels' = [i \in 0..(wc - 1) |-> [a \in 0..(ALPHABETLENGTH - 1) |-> FALSE]]
         /\ lettersPerWheel' = lpw
         /\ letters' = StoreLine([k \in 0..lpw |-> NUL], r.stored)
         /\ wheelFile' = r.stream
         /\ pc' = "ReadWheel"
         /\ UNCHANGED <<wheelIndex, wheelLines, noWheelLine, exception>>
  /\ UNCHANGED <<dictVars, out, freed>>

\* The first j < lettersPerWheel with !isalpha(letters[j]), or
\* lettersPerWheel when there is none: where the loop of line 102 stops.
FirstNonAlpha(buf, n) ==
  IF \E j \in 0..(n - 1) : ~isalpha(buf[j])
    THEN CHOOSE j \in 0..(n - 1) :
           /\ ~isalpha(buf[j])
           /\ \A k \in 0..(j - 1) : isalpha(buf[k])
    ELSE n

\* Line 106-108: which exception a non-alphabetic letters[j] raises.
\* (Mutant: the two branches swapped.)
LetterErrorSwapped(c) == IF c = NUL THEN ERR_NON_ALPHA ELSE ERR_INSUFFICIENT
LetterError(c) == IF c = NUL THEN ERR_INSUFFICIENT ELSE ERR_NON_ALPHA

\* Line 112 for every j < upto: wheels[i][alphabetindex(tolower(letters[j]))]
\* = true.  (Mutant: the letter is not converted to lower case, so an upper
\* case letter indexes outside the wheel and no flag of the wheel is set.)
MarkLettersNoLower(wheel, buf, upto) ==
  [a \in DOMAIN wheel |->
     wheel[a] \/ \E j \in 0..(upto - 1) : alphabetindex(buf[j]) = a]
MarkLetters(wheel, buf, upto) ==
  [a \in DOMAIN wheel |->
     wheel[a] \/ \E j \in 0..(upto - 1) : alphabetindex(tolower(buf[j])) = a]

\* Lines 95-114, one iteration: read one wheel's letter line and set the
\* wheel's flags.  Returning from ReadWheelFile closes wheels.txt.
ReadWheel ==
  /\ pc = "ReadWheel"
  /\ wheelIndex < wheelCount
  /\ \E in \in WheelPieces(lettersPerWheel) :
       /\ good(wheelFile) \/ in = EndOfFile
       /\ LET r == getline(wheelFile, in, lettersPerWheel + 1)
              buf == StoreLine(letters, r.stored)
              stop == FirstNonAlpha(buf, lettersPerWheel)
              last == wheelIndex + 1 = wheelCount
          IN /\ letters' = buf
             /\ wheelLines' = Append(wheelLines, in.chars)
             /\ noWheelLine' = (~good(wheelFile) \/ ~IsLine(in))
             /\ IF r.stream.fail THEN
                  /\ Throw(ERR_TOO_MANY)
                  /\ wheelFile' = r.stream
                  /\ UNCHANGED <<wheels, wheelIndex>>
                ELSE
                  /\ wheels' = [wheels EXCEPT
                                  ![wheelIndex] = MarkLetters(@, buf, stop)]
                  /\ IF stop < lettersPerWheel THEN
                       /\ Throw(LetterError(buf[stop]))
                       /\ wheelFile' = r.stream
                       /\ UNCHANGED wheelIndex
                     ELSE
                       /\ wheelIndex' = wheelIndex + 1
                       /\ wheelFile' = IF last THEN GoodStream ELSE r.stream
                       /\ pc' = IF last THEN "ProcessDictionary" ELSE "ReadWheel"
                       /\ UNCHANGED exception
  /\ UNCHANGED <<wheelCount, lettersPerWheel, dictVars, out, freed>>

\* ------------------------------------------------------ ProcessDictionary
\* Lines 121-128: the locals, and opening dictionary.txt.
OpenDictionary ==
  /\ pc = "ProcessDictionary"
  /\ word' = <<>>
  /\ count' = 0
  /\ matches' = 0
  /\ dictionaryFile' = GoodStream
  /\ \E opened \in BOOLEAN :
       IF opened THEN pc' = "scan" /\ UNCHANGED exception
       ELSE Throw(ERR_OPEN_DICTIONARY)
  /\ UNCHANGED <<lockVars, line, linesRead, call, calls, expected,
                 skippedNonAlpha, sawLongLine, out, freed>>

\* Lines 149-155: the two `continue`s.  (Mutants: one test left out.)
SkipWordAnyChars(validWord, length, wheels_) == length > wheels_
SkipWordAnyLength(validWord, length, wheels_) == ~validWord
SkipWord(validWord, length, wheels_) == ~validWord \/ length > wheels_

\* Line 161: count += matches.  (Mutant: the words are counted.)
AddOne(total, found) == total + 1
AddMatches(total, found) == total + found

\* The offsets at which word w lines up with the wheels: every letter of w
\* is on the wheel it faces.
MatchOffsets(lock, nWheels, w) ==
  {s \in 0..(nWheels - Len(w)) :
     \A j \in 0..(Len(w) - 1) : lock[s + j][alphabetindex(w[j + 1])]}

\* The match count of a dictionary entry: the number of offsets at which the
\* lower-cased entry lines up, and 0 for an entry that is no word for this
\* lock (a non-alphabetic character, or longer than the lock).
MatchCount(lock, nWheels, entry) ==
  IF AllAlpha(entry) /\ Len(entry) <= nWheels
    THEN Cardinality(MatchOffsets(lock, nWheels, LowerCase(entry)))
    ELSE 0

\* What a TestWord call that read outside the wheels array may return, when
\* it does not end the process.
AfterOutOfBounds == 0..(MaxWheels + 1)

\* Lines 131-162, one iteration of the loop: read a line, and unless it is
\* skipped test it against the lock.
ReadWord ==
  /\ pc = "scan"
  /\ ~dictionaryFile.eof /\ good(dictionaryFile)
  /\ \E in \in DictPieces :
       /\ linesRead < MaxDictLines \/ in = EndOfFile
       /\ LET r == getline(dictionaryFile, in, MAXWORDLENGTH + 1)
              length == Len(r.stored)
              validWord == AllAlpha(r.stored)
              lower == LowerCase(r.stored)
              run == TestWordRun(wheels, lower, length, wheelCount)
              Tested(m) ==
                /\ matches' = m
                /\ IF m > 0
                     THEN /\ out' = Append(out, WordLine(lower))
                          /\ count' = AddMatches(count, m)
                     ELSE UNCHANGED <<out, count>>
                /\ UNCHANGED <<pc, exception>>
          IN /\ dictionaryFile' = r.stream
             /\ line' = in
             /\ linesRead' = IF IsLine(in) THEN linesRead + 1 ELSE linesRead
             /\ sawLongLine' = (sawLongLine \/ Len(in.chars) > MAXWORDLENGTH)
             /\ IF r.stream.fail THEN
                  /\ word' = r.stored
                  /\ Throw(ERR_WORD_LENGTH)
                  /\ call' = NoCall
                  /\ UNCHANGED <<count, matches, out, calls, expected,
                                 skippedNonAlpha>>
                ELSE
                  /\ word' = lower
                  /\ expected' = expected + MatchCount(wheels, wheelCount, in.chars)
                  /\ skippedNonAlpha' = (skippedNonAlpha \/ ~validWord)
                  /\ IF SkipWord(validWord, length, wheelCount) THEN
                       /\ call' = NoCall
                       /\ UNCHANGED <<pc, exception, count, matches, out, calls>>
                     ELSE
                       /\ calls' = calls + 1
                       /\ call' = [made |-> TRUE, word |-> lower,
                                   wordLength |-> length, wheelCount |-> wheelCount,
                                   space |-> Space(length, wheelCount),
                                   reads |-> run.reads, result |-> run.count]
                       /\ IF ~run.oob THEN Tested(run.count)
                          ELSE \E crash \in BOOLEAN, m \in AfterOutOfBounds :
                                 IF crash
                                   THEN /\ pc' = "crashed"
                                        /\ UNCHANGED <<exception, count, matches, out>>
                                   ELSE Tested(m)
  /\ UNCHANGED <<lockVars, freed>>

\* Line 165, once the loop condition of line 131 is false.  The function
\* then ends without the return its type asks for; main ignores the value,
\* and the total is on std::cout before that point.
PrintTotal ==
  /\ pc = "scan"
  /\ ~(~dictionaryFile.eof /\ good(dictionaryFile))
  /\ out' = Append(out, TotalLine(count))
  /\ pc' = "prompt"
  /\ UNCHANGED <<lockVars, dictVars, exception, freed>>

\* ------------------------------------------------------------------- main
\* Lines 182-185: catch (std::exception e) prints e.what().
Catch ==
  /\ pc = "catch"
  /\ out' = Append(out, ErrorLine(exception))
  /\ pc' = "prompt"
  /\ UNCHANGED <<lockVars, dictVars, exception, freed>>

\* Lines 187-197: the prompt, getchar(), and the deletes.
Exit ==
  /\ pc = "prompt"
  /\ out' = Append(out, PromptLine)
  /\ freed' = TRUE
  /\ pc' = "done"
  /\ UNCHANGED <<lockVars, dictVars, exception>>

Next ==
  \/ ReadWheelHeader(MaxScanLetters)
  \/ ReadWheel
  \/ OpenDictionary
  \/ ReadWord
  \/ PrintTotal
  \/ Catch
  \/ Exit

\* The whole program.
Spec == Init /\ [][Next]_vars

\* ReadWheelFile alone, as main runs it: the program up to the return of
\* ReadWheelFile or the handling of what it throws.
NextLock ==
  \/ ReadWheelHeader(MaxLetters)
  \/ ReadWheel
  \/ Catch
  \/ Exit

SpecLock == Init /\ [][NextLock]_vars

\* ================================================================ claims
\* The positions of std::cout's lines of one kind.
LinesOf(kind) == {k \in 1..Len(out) : out[k].kind = kind}
\* The letter line of the wheel read last.
LastWheelLine == wheelLines[Len(wheelLines)]
\* Letter index a (0 = 'a') occurs on a line, in lower or in upper case.
OnLine(a, ln) == \E k \in 1..Len(ln) : ln[k] = 97 + a \/ ln[k] = 65 + a

C2_TotalIsSumOfMatchCounts ==
  /\ (pc \in {"scan", "prompt", "done"} => count = expected)
  /\ \A k \in LinesOf("total") : out[k].num = expected

C2_Witness ==
  /\ pc = "done"
  /\ Cardinality(LinesOf("word")) = 1
  /\ \E k \in LinesOf("total") : out[k].num = 2

\* C3 (as claimed): TestWord is never invoked with wordLength == 0, and an
\* empty word is never printed as a match.
C3_EmptyWordRejected ==
  /\ (call.made => call.wordLength > 0)
  /\ \A k \in LinesOf("word") : Len(out[k].text) > 0

\* C4 (as claimed): a run that prints an error has printed no word and no
\* total.  The word-length error is taken only where a line longer than
\* MAXWORDLENGTH was found, which is the case the claim names, and the run
\* only where every word printed is a word of at least one letter.
C4_NoMatchOutputOnError ==
  (/\ LinesOf("error") # {}
   /\ (exception = ERR_WORD_LENGTH => sawLongLine)
   /\ \A k \in LinesOf("word") : Len(out[k].text) > 0)
    => LinesOf("word") \cup LinesOf("total") = {}

\* C5 (as claimed): for every letter line ReadWheelFile reads, a line
\* shorter than declared raises "insufficient letters", a line with a
\* non-alphabetic character raises "invalid character", and a line longer
\* than declared raises "too many letters".
C5_EachDefectItsOwnError ==
  (wheelLines # <<>> /\ ~noWheelLine)
    => /\ (Len(LastWheelLine) < lettersPerWheel => exception = ERR_INSUFFICIENT)
       /\ (~AllAlpha(LastWheelLine) => exception = ERR_NON_ALPHA)
       /\ (Len(LastWheelLine) > lettersPerWheel => exception = ERR_TOO_MANY)

\* C5 (amended): the three errors are raised by precedence.  "Too many
\* letters" is raised exactly when the line is longer than declared or there
\* is no line to read; "invalid character" exactly when a line of at most the
\* declared length holds a non-alphabetic character, short or not;
\* "insufficient letters" exactly when an all-alphabetic line is shorter
\* than declared.
C5_ErrorsByPrecedence ==
  LET read == wheelLines # <<>> /\ ~noWheelLine
      none == wheelLines # <<>> /\ noWheelLine
      fits == read /\ Len(LastWheelLine) <= lettersPerWheel
  IN /\ (exception = ERR_TOO_MANY)
          <=> (none \/ (read /\ Len(LastWheelLine) > lettersPerWheel))
     /\ (exception = ERR_NON_ALPHA) <=> (fits /\ ~AllAlpha(LastWheelLine))
     /\ (exception = ERR_INSUFFICIENT)
          <=> (fits /\ AllAlpha(LastWheelLine)
                    /\ Len(LastWheelLine) < lettersPerWheel)

\* A short line with a non-alphabetic character was read and reported.
C5_Witness ==
  /\ pc = "done"
  /\ wheelLines # <<>> /\ ~noWheelLine
  /\ Len(LastWheelLine) < lettersPerWheel
  /\ ~AllAlpha(LastWheelLine)
  /\ exception = ERR_NON_ALPHA

\* C6: once ReadWheelFile has returned, flag [i][c] of the lock is set
\* exactly when letter c occurs, in either case, on the letter line of wheel
\* i; so every wheel has a letter.
C6_FlagsAreTheLettersOfTheLine ==
  pc = "ProcessDictionary"
    => /\ Len(wheelLines) = wheelCount
       /\ DOMAIN wheels = 0..(wheelCount - 1)
       /\ \A i \in 0..(wheelCount - 1) :
            /\ \A a \in 0..(ALPHABETLENGTH - 1) :
                 wheels[i][a] <=> OnLine(a, wheelLines[i + 1])
            /\ \E a \in 0..(ALPHABETLENGTH - 1) : wheels[i][a]

\* A lock of two wheels whose second line holds the same letter twice, once
\* in upper case.
C6_Witness ==
  /\ pc = "ProcessDictionary"
  /\ wheelCount = 2
  /\ wheelLines[2] = <<66, 66>>
  /\ wheels[1][1]

\* A step of the scan that found a dictionary line.
FoundLine == linesRead' = linesRead + 1
\* Nothing was tested, printed or counted in this step.
NothingMatched ==
  /\ ~call'.made
  /\ calls' = calls
  /\ out' = out
  /\ count' = count

\* C7: a line of at most MAXWORDLENGTH characters with a non-alphabetic
\* character is skipped: TestWord is not called, nothing is printed or
\* counted, no error is raised and the scan goes on; and after such a skip
\* a valid word is tested, and printed and counted when it matches.
C7_NonAlphaLineSkipped ==
  [][/\ ((/\ FoundLine
          /\ Len(line'.chars) <= MAXWORDLENGTH
          /\ ~AllAlpha(line'.chars))
           => (/\ NothingMatched
               /\ pc' = "scan"
               /\ exception' = NoException))
     /\ ((/\ FoundLine
          /\ skippedNonAlpha
          /\ AllAlpha(line'.chars)
          /\ Len(line'.chars) <= wheelCount)
           => LET n == MatchCount(wheels, wheelCount, line'.chars)
              IN /\ call'.made
                 /\ call'.word = LowerCase(line'.chars)
                 /\ count' = count + n
                 /\ out' = IF n > 0
                             THEN Append(out, WordLine(LowerCase(line'.chars)))
                             ELSE out)
    ]_vars

\* A valid word was printed after a non-alphabetic line had been skipped.
C7_Witness ==
  /\ pc = "scan"
  /\ skippedNonAlpha
  /\ AllAlpha(line.chars)
  /\ call.made /\ call.result > 0
  /\ out # <<>>
  /\ out[Len(out)] = WordLine(call.word)

\* C8: for a dictionary word longer than wheelCount TestWord is not called,
\* the word is not printed and adds nothing to the total; whenever TestWord
\* is called, wordLength <= wheelCount.
C8_LongerThanLockSkipped ==
  [][/\ ((FoundLine /\ Len(line'.chars) > wheelCount) => NothingMatched)
     /\ (call'.made => call'.wordLength <= wheelCount)
    ]_vars

\* An alphabetic line within the maximum length, longer than the lock, was
\* skipped.
C8_Witness ==
  /\ pc = "scan"
  /\ IsLine(line)
  /\ AllAlpha(line.chars)
  /\ Len(line.chars) > wheelCount
  /\ Len(line.chars) <= MAXWORDLENGTH
  /\ ~call.made

\* The lock was built, the dictionary was opened and the run is over.
ScanOver ==
  /\ pc \in {"prompt", "done"}
  /\ wheelCount > 0
  /\ wheelIndex = wheelCount
  /\ exception # ERR_OPEN_DICTIONARY

\* C9 (as claimed): when no line of the dictionary is longer than
\* MAXWORDLENGTH the run ends without an error, having printed the total
\* exactly once, after every word; the word-length error is raised only when
\* a longer line was found.
C9_TotalOnceAndNoError ==
  /\ (exception = ERR_WORD_LENGTH => sawLongLine)
  /\ (ScanOver /\ ~sawLongLine)
       => /\ exception = NoException
          /\ Cardinality(LinesOf("total")) = 1
          /\ \A k \in LinesOf("word"), t \in LinesOf("total") : k < t

\* C10: in every call of TestWord, wheelCount - wordLength does not
\* underflow, every wheel index read is in 0..wheelCount-1 and every letter
\* index read is in 0..25.
C10_TestWordReadsInBounds ==
  call.made
    => /\ ~Underflows(call.wordLength, call.wheelCount)
       /\ call.space = call.wheelCount - call.wordLength
       /\ \A r \in call.reads :
            /\ r[1] \in 0..(call.wheelCount - 1)
            /\ r[2] \in 0..(ALPHABETLENGTH - 1)

\* A call that read the last wheel at the last offset.
C10_Witness ==
  /\ call.made
  /\ call.wheelCount = 2
  /\ call.wordLength = 1
  /\ <<1, 1>> \in call.reads

====
